---------------------------- MODULE Spec2Model ----------------------------
(***************************************************************************)
(* A model of govw: the supervisor of a Vowpal Wabbit daemon.              *)
(*                                                                         *)
(*   src/unnamed/part_000   VWDaemon: NewDaemon, Run, Stop, Predict,       *)
(*                          WorkersCount, IsExist, DeepCopy, IsChanged     *)
(*   src/utils.go           runCommand, RecreateDaemon, modelFileChecker   *)
(*                                                                         *)
(* The Go program is a set of goroutines over shared VWDaemon structs:     *)
(* the caller's goroutine (Run, Stop, IsExist, RecreateDaemon), one        *)
(* modelFileChecker goroutine per NewDaemon call with updatable = true,    *)
(* and the goroutines that call Predict.  The operating system is the      *)
(* environment: the process table that pgrep and pkill act on, and the     *)
(* modification time of the model file.  log.Fatal is os.Exit: it ends     *)
(* every goroutine and runs no deferred call; a panic runs the deferred    *)
(* calls of its own goroutine and then ends the program.                   *)
(***************************************************************************)
EXTENDS Integers, Sequences, FiniteSets, TLC

\* ------------------------------------------------------------------ bounds
MaxChildren  == 2   \* Children is drawn from 1..MaxChildren
MaxRecreates == 2   \* RecreateDaemon calls started in one behaviour of Spec
MaxChanges   == 2   \* modifications of the model file
MaxFaults    == 1   \* failed shell commands (a count query, a launch)
NPredict     == 3   \* goroutines calling Predict
MaxReqLen    == 1   \* length of a request passed to Predict
MaxTries     == 3   \* tries of a direct IsExist call

\* ------------------------------------------------------- program constants
DefaultPort == 26542
endOfLine   == 10
RunPreTries  == 3   \* Run: vw.IsExist(3, 100)
RunPostTries == 5   \* Run: vw.IsExist(5, 500)
StopTries    == 5   \* Stop: vw.IsExist(5, 500)

MaxWorkers == 2 * MaxChildren        \* workers of a handle of SpecPool
MaxHandles == MaxRecreates + 2
Handles    == 0 .. MaxHandles - 1
Main       == MaxHandles              \* the caller's goroutine
Sups       == 0 .. MaxHandles         \* watcher of handle h is goroutine h
Preds      == 1 .. NPredict
Ports      == {DefaultPort, DefaultPort + 1}
Nil        == 0 - 1                   \* nil channel, no handle
TmpRef     == 0 - 2                   \* the receiver is the DeepCopy snapshot
Fields     == {"Port", "Children", "Model", "TCPQueue"}
Bytes      == {endOfLine, 97}         \* the terminator and one other byte

VARIABLES
    heap,       \* heap[h]: the VWDaemon struct at address h
    nextH,      \* number of VWDaemon structs NewDaemon has allocated
    models,     \* models[m]: the VWModel struct at address m (ModTime)
    updatable,  \* Model.Updatable, the same for every handle
    queues,     \* queues[q]: the buffered contents of channel q
    qcap,       \* qcap[q]: the capacity channel q was made with
    procs,      \* procs[port]: the OS processes matching "vw.*--port <port>"
    pendStart,  \* <<port, num_children>> of the start commands not yet executed
    pendKill,   \* ports with a detached pkill not yet executed
    fileTime,   \* modification time of the model file
    sup,        \* sup[t]: goroutine t (caller or watcher): position and locals
    pred,       \* pred[p]: goroutine p calling Predict on handle 0
    fatal,      \* "" while the program runs, else why it exited
    faults,     \* shell commands that may still fail
    nRec,       \* RecreateDaemon calls that may still start
    nDone,      \* RecreateDaemon calls on handle 0 that have returned
    trig        \* trig[v]: RecreateDaemon calls made on seeing file time v

vars == <<heap, nextH, models, updatable, queues, qcap, procs, pendStart,
          pendKill, fileTime, sup, pred, fatal, faults, nRec, nDone, trig>>

\* ----------------------------------------------------------------- records
NoHandle == [Port |-> 0, Children |-> 0, Model |-> Nil, TCPQueue |-> Nil]
NoTmp    == [Port |-> 0, Children |-> 0, ModTime |-> 0, TCPQueue |-> Nil]
NoConn   == [q |-> Nil, k |-> 0, port |-> 0, inst |-> 0]
NoSup    == [pc |-> "none", self |-> Nil, d |-> Nil, nw |-> Nil, tmp |-> NoTmp,
             i |-> 0, tries |-> 0, err |-> FALSE, res |-> FALSE,
             polls |-> 0, delays |-> 0, hit |-> 0, qerr |-> FALSE,
             from |-> "", sfrom |-> "", rfrom |-> "",
             k |-> 0, size |-> 0, todo |-> {}, panicking |-> FALSE]
NoPred   == [pc |-> "idle", req |-> <<>>, payload |-> <<>>, q |-> Nil,
             conn |-> NoConn]

\* r overrides the fields of s that it names.
With(s, r) == r @@ s

RECURSIVE SeqsUpTo(_)
SeqsUpTo(n) ==
    IF n = 0 THEN {<<>>}
    ELSE LET shorter == SeqsUpTo(n - 1) IN
         shorter \cup {Append(s, b) : s \in {x \in shorter : Len(x) = n - 1}, b \in Bytes}
Requests == SeqsUpTo(MaxReqLen)

\* ------------------------------------------------------------ environment
NoProc == [count |-> 0, want |-> 0, inst |-> 0]

\* A detached "vw --daemon ... --port p --num_children n" gets to run: on a
\* free port the parent process appears and will fork n workers; on a port
\* that is taken the new process cannot bind and exits.
EnvSpawn(p, n) ==
    /\ fatal = ""
    /\ <<p, n>> \in pendStart
    /\ pendStart' = pendStart \ {<<p, n>>}
    /\ procs' = IF procs[p].count = 0
                THEN [procs EXCEPT ![p] = [count |-> 1, want |-> n + 1,
                                           inst |-> @.inst + 1]]
                ELSE procs
    /\ UNCHANGED <<heap, nextH, models, updatable, queues, qcap, pendKill,
                   fileTime, sup, pred, fatal, faults, nRec, nDone,
                   trig>>

\* The daemon forks its next worker.
EnvFork(p) ==
    /\ fatal = ""
    /\ 0 < procs[p].count
    /\ procs[p].count < procs[p].want
    /\ procs' = [procs EXCEPT ![p].count = @ + 1]
    /\ UNCHANGED <<heap, nextH, models, updatable, queues, qcap, pendStart,
                   pendKill, fileTime, sup, pred, fatal, faults, nRec, nDone,
                   trig>>

\* A detached pkill -9 -f "vw.*--port p" gets to run.
EnvKill(p) ==
    /\ fatal = ""
    /\ p \in pendKill
    /\ pendKill' = pendKill \ {p}
    /\ procs' = [procs EXCEPT ![p] = [count |-> 0, want |-> 0, inst |-> @.inst]]
    /\ UNCHANGED <<heap, nextH, models, updatable, queues, qcap, pendStart,
                   fileTime, sup, pred, fatal, faults, nRec, nDone,
                   trig>>

\* The model file is written again.
EnvTouch ==
    /\ fatal = ""
    /\ fileTime < MaxChanges
    /\ fileTime' = fileTime + 1
    /\ UNCHANGED <<heap, nextH, models, updatable, queues, qcap, procs,
                   pendStart, pendKill, sup, pred, fatal, faults, nRec, nDone,
                   trig>>

\* ------------------------------------------------------------- runCommand
\* Outcomes of exec.Command(...): TRUE the command ran, FALSE it returned an
\* error (while the behaviour's budget of failures lasts).
CommandOutcomes == IF faults > 0 THEN {TRUE, FALSE} ELSE {TRUE}

\* ------------------------------------------------- WorkersCount, IsExist
RecvPort(s)     == IF s.self = TmpRef THEN s.tmp.Port ELSE heap[s.self].Port
RecvChildren(s) == IF s.self = TmpRef THEN s.tmp.Children ELSE heap[s.self].Children

\* pgrep -f 'vw.*--port p' | wc -l: the matching processes and the sh -c
\* that runs the pipeline, whose command line holds the pattern too.
PgrepLines(p) == procs[p].count + 1

\* WorkersCount: the count less the one line of the shell.
WorkersCount(p) == PgrepLines(p) - 1

\* (mutant) the parent process is not counted.
ExistMatchWorkers(count, children) == count = children

\* IsExist's test of one poll: count == vw.Children+1.
ExistMatch(count, children) == count = children + 1

\* The call vw.IsExist(tries, delay) from position `from`.
EnterExist(s, tries, from) ==
    With(s, [pc |-> IF tries > 0 THEN "poll" ELSE "ex_ret",
             i |-> 0, tries |-> tries, err |-> FALSE, res |-> FALSE,
             polls |-> 0, delays |-> 0, hit |-> 0, qerr |-> FALSE,
             from |-> from])

\* The delays IsExist has slept after its poll number i (from 0) did not match.
DelaysAfterMiss(s) == s.delays + 1

\* One iteration of IsExist's loop: the count query, the test, the sleep; and,
\* after the last iteration, the test of err that follows the loop.
IsExistPoll(t) ==
    LET s == sup[t] IN
    /\ fatal = ""
    /\ s.pc = "poll"
    /\ s.i < s.tries
    /\ \E ok \in CommandOutcomes :
         LET count == IF ok THEN WorkersCount(RecvPort(s)) ELSE 0
             polls == s.polls + 1
             hit   == IF s.hit = 0 /\ ok
                         /\ WorkersCount(RecvPort(s)) = RecvChildren(s) + 1
                      THEN polls ELSE s.hit
             last  == s.i + 1 >= s.tries
         IN  /\ faults' = IF ok THEN faults ELSE faults - 1
             /\ IF ExistMatch(count, RecvChildren(s))
                THEN /\ sup' = [sup EXCEPT ![t] =
                                  With(s, [pc |-> "ex_ret", res |-> TRUE,
                                           err |-> ~ok, polls |-> polls,
                                           hit |-> hit,
                                           qerr |-> s.qerr \/ ~ok])]
                     /\ fatal' = fatal
                ELSE IF last /\ ~ok
                THEN /\ fatal' = "Can't getting VW workers count."
                     /\ sup' = [sup EXCEPT ![t] =
                                  With(s, [i |-> s.i + 1, err |-> TRUE,
                                           polls |-> polls, hit |-> hit,
                                           qerr |-> s.qerr \/ ~ok,
                                           delays |-> DelaysAfterMiss(s)])]
                ELSE /\ sup' = [sup EXCEPT ![t] =
                                  With(s, [pc |-> IF last THEN "ex_ret" ELSE "poll",
                                           i |-> s.i + 1, err |-> ~ok,
                                           res |-> FALSE, polls |-> polls,
                                           hit |-> hit,
                                           qerr |-> s.qerr \/ ~ok,
                                           delays |-> DelaysAfterMiss(s)])]
                     /\ fatal' = fatal
    /\ UNCHANGED <<heap, nextH, models, updatable, queues, qcap, procs,
                   pendStart, pendKill, fileTime, pred, nRec, nDone,
                   trig>>

\* ------------------------------------------------------------------ panic
\* A panic in goroutine t: inside RecreateDaemon, after the defer statement
\* and outside the deferred call, the deferred tmpVW.Stop() runs first.
Panic(t, s) ==
    IF s.d # Nil /\ s.sfrom # "defer"
    THEN /\ sup' = [sup EXCEPT ![t] =
                      With(s, [pc |-> "kill", self |-> TmpRef,
                               sfrom |-> "defer", panicking |-> TRUE])]
         /\ fatal' = fatal
    ELSE /\ sup' = sup
         /\ fatal' = "panic"

\* ------------------------------------------------------------------- Stop
\* Stop: the pkill, launched detached, then the call of IsExist(5, 500).
StopKill(t) ==
    LET s == sup[t] IN
    /\ fatal = ""
    /\ s.pc = "kill"
    /\ \E ok \in CommandOutcomes :
         /\ faults' = IF ok THEN faults ELSE faults - 1
         /\ IF ok
            THEN /\ pendKill' = pendKill \cup {RecvPort(s)}
                 /\ sup' = [sup EXCEPT ![t] = EnterExist(s, StopTries, "stop")]
                 /\ fatal' = fatal
            ELSE /\ pendKill' = pendKill
                 /\ Panic(t, s)
    /\ UNCHANGED <<heap, nextH, models, updatable, queues, qcap, procs,
                   pendStart, fileTime, pred, nRec, nDone,
                   trig>>

\* Where Stop's return nil leads: back into Run, to the end of a direct call,
\* or to the end of RecreateDaemon (whose deferred call it was).
StopReturn(s) ==
    CASE s.sfrom = "run"   -> With(s, [pc |-> "start", sfrom |-> ""])
      [] s.sfrom = "defer" -> With(s, [pc |-> "rc_ret", sfrom |-> ""])
      [] OTHER             -> With(s, [pc |-> "stopped", sfrom |-> ""])

\* Stop after IsExist: log.Fatal when it said true, return nil otherwise.
StopAfterExist(t) ==
    LET s == sup[t] IN
    /\ fatal = ""
    /\ s.pc = "ex_ret"
    /\ s.from = "stop"
    /\ IF s.res
       THEN /\ fatal' = "Failed to stop daemon!"
            /\ sup' = sup
       ELSE IF s.sfrom = "defer" /\ s.panicking
       THEN /\ fatal' = "panic"
            /\ sup' = sup
       ELSE /\ fatal' = fatal
            /\ sup' = [sup EXCEPT ![t] = StopReturn(s)]
    /\ UNCHANGED <<heap, nextH, models, updatable, queues, qcap, procs,
                   pendStart, pendKill, fileTime, pred, faults, nRec, nDone,
                   trig>>

\* -------------------------------------------------------------------- Run
\* Run, first statement: the call of IsExist(3, 100).
RunEnter(s, h, rfrom) ==
    EnterExist(With(s, [self |-> h, rfrom |-> rfrom]), RunPreTries, "pre")

\* Run after the first IsExist: Stop when it said true, then the start.
RunAfterPre(t) ==
    LET s == sup[t] IN
    /\ fatal = ""
    /\ s.pc = "ex_ret"
    /\ s.from = "pre"
    /\ sup' = [sup EXCEPT ![t] =
                 IF s.res THEN With(s, [pc |-> "kill", sfrom |-> "run"])
                          ELSE With(s, [pc |-> "start"])]
    /\ UNCHANGED <<heap, nextH, models, updatable, queues, qcap, procs,
                   pendStart, pendKill, fileTime, pred, fatal, faults, nRec,
                   nDone,
                   trig>>

\* Run: the start command, launched detached, then the call of IsExist(5, 500).
RunStart(t) ==
    LET s == sup[t] IN
    /\ fatal = ""
    /\ s.pc = "start"
    /\ \E ok \in CommandOutcomes :
         /\ faults' = IF ok THEN faults ELSE faults - 1
         /\ IF ok
            THEN /\ pendStart' = pendStart \cup {<<RecvPort(s), RecvChildren(s)>>}
                 /\ sup' = [sup EXCEPT ![t] = EnterExist(s, RunPostTries, "post")]
                 /\ fatal' = fatal
            ELSE /\ pendStart' = pendStart
                 /\ Panic(t, s)
    /\ UNCHANGED <<heap, nextH, models, updatable, queues, qcap, procs,
                   pendKill, fileTime, pred, nRec, nDone,
                   trig>>

\* (mutant) the pool takes one connection per worker.
PoolSizeAll(children) == children

\* The size of the pool: vw.Children / 2.
PoolSize(children) == children \div 2

\* (mutant) an instance that is not healthy is taken as started.
PostUnhealthyIgnored(res) == FALSE

\* Run's test of the second IsExist: if !res { log.Fatal(...) }.
PostUnhealthy(res) == ~res

\* Run after the second IsExist: log.Fatal when it said false; otherwise
\* vw.TCPQueue = make(chan *net.TCPConn, vw.Children/2) and the first lines
\* of makeTCPConnQueue.  The channel made by the Run on handle h is channel h.
RunAfterPost(t) ==
    LET s == sup[t] IN
    /\ fatal = ""
    /\ s.pc = "ex_ret"
    /\ s.from = "post"
    /\ IF PostUnhealthy(s.res)
       THEN /\ fatal' = "Failed to start daemon!"
            /\ UNCHANGED <<sup, heap, queues, qcap,
                   trig>>
       ELSE /\ fatal' = fatal
            /\ heap' = [heap EXCEPT ![s.self].TCPQueue = s.self]
            /\ queues' = [queues EXCEPT ![s.self] = <<>>]
            /\ qcap' = [qcap EXCEPT ![s.self] = PoolSize(RecvChildren(s))]
            /\ sup' = [sup EXCEPT ![t] =
                         With(s, [pc |-> "fill", k |-> 0,
                                  size |-> PoolSize(RecvChildren(s))])]
    /\ UNCHANGED <<nextH, models, updatable, procs, pendStart, pendKill,
                   fileTime, pred, faults, nRec, nDone,
                   trig>>

\* getTCPConn: a connection to the daemon now listening on the port.
Dial(p, q, k) == [q |-> q, k |-> k, port |-> p, inst |-> procs[p].inst]

\* One iteration of makeTCPConnQueue: vw.TCPQueue <- vw.getTCPConn().  The
\* dial is fatal when nothing listens; the send waits for room in the channel.
RunFill(t) ==
    LET s == sup[t]
        q == heap[s.self].TCPQueue
    IN
    /\ fatal = ""
    /\ s.pc = "fill"
    /\ s.k < s.size
    /\ IF procs[RecvPort(s)].count = 0
       THEN /\ fatal' = "Error while dialing TCP"
            /\ UNCHANGED <<sup, queues,
                   trig>>
       ELSE /\ q # Nil
            /\ Len(queues[q]) < qcap[q]
            /\ queues' = [queues EXCEPT ![q] =
                            Append(@, Dial(RecvPort(s), s.self, s.k))]
            /\ sup' = [sup EXCEPT ![t] = With(s, [k |-> s.k + 1])]
            /\ fatal' = fatal
    /\ UNCHANGED <<heap, nextH, models, updatable, qcap, procs, pendStart,
                   pendKill, fileTime, pred, faults, nRec, nDone,
                   trig>>

\* Run returns nil: to the caller, or into RecreateDaemon at *d = *newVW.
RunReturn(t) ==
    LET s == sup[t] IN
    /\ fatal = ""
    /\ s.pc = "fill"
    /\ s.k >= s.size
    /\ sup' = [sup EXCEPT ![t] =
                 IF s.rfrom = "rc"
                 THEN With(s, [pc |-> "swap", todo |-> Fields, rfrom |-> ""])
                 ELSE With(NoSup, [pc |-> "ran"])]
    /\ UNCHANGED <<heap, nextH, models, updatable, queues, qcap, procs,
                   pendStart, pendKill, fileTime, pred, fatal, faults, nRec,
                   nDone,
                   trig>>

\* The caller calls vw.IsExist(tries, delay) on the handle.
MainIsExist(tries) ==
    /\ fatal = ""
    /\ sup[Main].pc = "new"
    /\ sup' = [sup EXCEPT ![Main] = EnterExist(With(@, [self |-> 0]), tries, "api")]
    /\ UNCHANGED <<heap, nextH, models, updatable, queues, qcap, procs,
                   pendStart, pendKill, fileTime, pred, fatal, faults, nRec,
                   nDone,
                   trig>>

\* The caller calls vw.Stop() on the handle.
MainStop ==
    /\ fatal = ""
    /\ sup[Main].pc \in {"new", "ran"}
    /\ sup' = [sup EXCEPT ![Main] =
                 With(@, [pc |-> "kill", self |-> 0, sfrom |-> "api"])]
    /\ UNCHANGED <<heap, nextH, models, updatable, queues, qcap, procs,
                   pendStart, pendKill, fileTime, pred, fatal, faults, nRec,
                   nDone,
                   trig>>

\* Processes matching the port start and exit for reasons of their own: the
\* count the next query returns is any.
EnvSet(p, n) ==
    /\ fatal = ""
    /\ procs[p].count # n
    /\ procs' = [procs EXCEPT ![p] = [count |-> n, want |-> n, inst |-> @.inst]]
    /\ UNCHANGED <<heap, nextH, models, updatable, queues, qcap, pendStart,
                   pendKill, fileTime, sup, pred, fatal, faults, nRec, nDone,
                   trig>>

\* --------------------------------------------------------- RecreateDaemon
\* DeepCopy: gob encodes the exported fields; a channel field is skipped, and
\* the Model pointer is followed, so the copy owns its own VWModel.
DeepCopy(h) ==
    [Port |-> heap[h].Port, Children |-> heap[h].Children,
     ModTime |-> models[heap[h].Model].ModTime, TCPQueue |-> Nil]

\* The port of the new instance.
AlternatePort(port) == IF port = DefaultPort THEN port + 1 ELSE DefaultPort

\* NewDaemon: the struct it returns; its VWModel is allocated with it, at the
\* same index, with the file's modification time of now.
NewDaemon(port, children, m) ==
    [Port |-> port, Children |-> children, Model |-> m, TCPQueue |-> Nil]

\* RecreateDaemon(d) up to the call of newVW.Run(): the snapshot, the defer,
\* the choice of the port, NewDaemon (which starts a modelFileChecker on the
\* new handle when updatable is set), and Run's first statement.
RecreateBegin(t) ==
    LET s  == sup[t]
        nw == nextH
    IN
    /\ fatal = ""
    /\ s.pc = "rc"
    /\ nextH < MaxHandles
    /\ nextH' = nextH + 1
    /\ heap' = [heap EXCEPT ![nw] =
                  NewDaemon(AlternatePort(heap[s.d].Port), heap[s.d].Children, nw)]
    /\ models' = [models EXCEPT ![nw] = [ModTime |-> fileTime]]
    /\ sup' = [sup EXCEPT
                 ![t] = RunEnter(With(s, [tmp |-> DeepCopy(s.d), nw |-> nw]),
                                 nw, "rc"),
                 ![nw] = IF updatable
                         THEN With(NoSup, [pc |-> "sleep", d |-> nw])
                         ELSE @]
    /\ UNCHANGED <<updatable, queues, qcap, procs, pendStart, pendKill,
                   fileTime, pred, fatal, faults, nRec, nDone,
                   trig>>

\* The value *d = *newVW stores in field f of d.
Overwrite(old, new, f) ==
    CASE f = "Port"     -> [old EXCEPT !.Port = new.Port]
      [] f = "Children" -> [old EXCEPT !.Children = new.Children]
      [] f = "Model"    -> [old EXCEPT !.Model = new.Model]
      [] OTHER          -> [old EXCEPT !.TCPQueue = new.TCPQueue]

\* *d = *newVW, one word at a time and unsynchronised: the fields are stored
\* in an order the build chooses.  After the last store the deferred
\* tmpVW.Stop() runs.
RecreateOverwrite(t, f) ==
    LET s == sup[t] IN
    /\ fatal = ""
    /\ s.pc = "swap"
    /\ f \in s.todo
    /\ heap' = [heap EXCEPT ![s.d] = Overwrite(@, heap[s.nw], f)]
    /\ sup' = [sup EXCEPT ![t] =
                 IF s.todo = {f}
                 THEN With(s, [pc |-> "kill", self |-> TmpRef, todo |-> {},
                               sfrom |-> "defer"])
                 ELSE With(s, [todo |-> s.todo \ {f}])]
    /\ UNCHANGED <<nextH, models, updatable, queues, qcap, procs, pendStart,
                   pendKill, fileTime, pred, fatal, faults, nRec, nDone,
                   trig>>

\* RecreateDaemon returns, to modelFileChecker's loop or to the caller.
RecreateReturn(t) ==
    LET s == sup[t] IN
    /\ fatal = ""
    /\ s.pc = "rc_ret"
    /\ sup' = [sup EXCEPT ![t] =
                 With(NoSup, [pc |-> IF t = Main THEN "ran" ELSE "sleep",
                              d |-> IF t = Main THEN Nil ELSE s.d])]
    /\ nDone' = IF s.d = 0 THEN nDone + 1 ELSE nDone
    /\ UNCHANGED <<heap, nextH, models, updatable, queues, qcap, procs,
                   pendStart, pendKill, fileTime, pred, fatal, faults, nRec,
                   trig>>

\* ------------------------------------------------------- modelFileChecker
\* IsChanged: the stored modification time differs from the file's.
IsChanged(m) == models[m].ModTime # fileTime

\* One turn of modelFileChecker's loop after its sleep: RecreateDaemon(vw)
\* is called when the model file has changed.
WatcherPoll(t) ==
    LET s == sup[t] IN
    /\ fatal = ""
    /\ s.pc = "sleep"
    /\ IsChanged(heap[s.d].Model)
    /\ nRec > 0
    /\ nRec' = nRec - 1
    /\ trig' = [trig EXCEPT ![fileTime] = @ + 1]
    /\ sup' = [sup EXCEPT ![t] = With(s, [pc |-> "rc"])]
    /\ UNCHANGED <<heap, nextH, models, updatable, queues, qcap, procs,
                   pendStart, pendKill, fileTime, pred, fatal, faults, nDone>>

\* ------------------------------------------------------------- the caller
\* The caller runs the handle it constructed.
MainRun ==
    /\ fatal = ""
    /\ sup[Main].pc = "new"
    /\ sup' = [sup EXCEPT ![Main] = RunEnter(@, 0, "main")]
    /\ UNCHANGED <<heap, nextH, models, updatable, queues, qcap, procs,
                   pendStart, pendKill, fileTime, pred, fatal, faults, nRec,
                   nDone,
                   trig>>

\* The caller of a handle without a watcher calls RecreateDaemon itself.
MainRecreate ==
    /\ fatal = ""
    /\ sup[Main].pc \in {"new", "ran"}
    /\ ~updatable
    /\ nRec > 0
    /\ nRec' = nRec - 1
    /\ sup' = [sup EXCEPT ![Main] = With(NoSup, [pc |-> "rc", d |-> 0])]
    /\ UNCHANGED <<heap, nextH, models, updatable, queues, qcap, procs,
                   pendStart, pendKill, fileTime, pred, fatal, faults, nDone,
                   trig>>

\* ---------------------------------------------------------------- Predict
\* The first statement of Predict: the terminator is appended unless the last
\* byte pData[len(pData)-1] is one.  Called only on a request that has a last
\* byte (the index expression panics on an empty slice).
Normalise(pData) ==
    IF pData[Len(pData)] # endOfLine THEN Append(pData, endOfLine) ELSE pData

\* Predict(pData) up to the receive: the normalisation, and the evaluation
\* of the channel operand of conn := <-vw.TCPQueue.
PredictCall(p, r) ==
    /\ fatal = ""
    /\ pred[p].pc = "idle"
    /\ IF Len(r) = 0
       THEN /\ fatal' = "panic"
            /\ pred' = [pred EXCEPT ![p] = With(NoPred, [pc |-> "panic", req |-> r])]
       ELSE /\ fatal' = fatal
            /\ pred' = [pred EXCEPT ![p] =
                          With(NoPred, [pc |-> "recv", req |-> r,
                                        payload |-> Normalise(r),
                                        q |-> heap[0].TCPQueue])]
    /\ UNCHANGED <<heap, nextH, models, updatable, queues, qcap, procs,
                   pendStart, pendKill, fileTime, sup, faults, nRec, nDone,
                   trig>>

\* (mutant) the connection is read off the channel and left in it.
PredictRecvPeek(p) ==
    LET s == pred[p] IN
    /\ fatal = ""
    /\ s.pc = "recv"
    /\ s.q # Nil
    /\ queues[s.q] # <<>>
    /\ pred' = [pred EXCEPT ![p] =
                  With(s, [pc |-> "io", conn |-> Head(queues[s.q]), q |-> Nil])]
    /\ UNCHANGED <<heap, nextH, models, updatable, queues, qcap, procs,
                   pendStart, pendKill, fileTime, sup, fatal, faults, nRec,
                   nDone,
                   trig>>

\* conn := <-vw.TCPQueue: waits for a connection; a nil channel never has one.
PredictRecv(p) ==
    LET s == pred[p] IN
    /\ fatal = ""
    /\ s.pc = "recv"
    /\ s.q # Nil
    /\ queues[s.q] # <<>>
    /\ queues' = [queues EXCEPT ![s.q] = Tail(@)]
    /\ pred' = [pred EXCEPT ![p] =
                  With(s, [pc |-> "io", conn |-> Head(queues[s.q]), q |-> Nil])]
    /\ UNCHANGED <<heap, nextH, models, updatable, qcap, procs, pendStart,
                   pendKill, fileTime, sup, fatal, faults, nRec, nDone,
                   trig>>

\* The daemon a connection was dialled to is still running.
ConnAlive(c) == procs[c.port].inst = c.inst /\ procs[c.port].count > 0

\* conn.Write(pData) and ReadString('\n'): fatal when the daemon is gone;
\* then the evaluation of the channel operand of vw.TCPQueue <- conn.
PredictIO(p) ==
    LET s == pred[p] IN
    /\ fatal = ""
    /\ s.pc = "io"
    /\ IF ConnAlive(s.conn)
       THEN /\ pred' = [pred EXCEPT ![p] =
                          With(s, [pc |-> "send", q |-> heap[0].TCPQueue])]
            /\ fatal' = fatal
       ELSE /\ pred' = pred
            /\ fatal' = "Error via writing to VW TCP connections"
    /\ UNCHANGED <<heap, nextH, models, updatable, queues, qcap, procs,
                   pendStart, pendKill, fileTime, sup, faults, nRec, nDone,
                   trig>>

\* vw.TCPQueue <- conn: waits for room in the channel; then Predict returns.
PredictSend(p) ==
    LET s == pred[p] IN
    /\ fatal = ""
    /\ s.pc = "send"
    /\ s.q # Nil
    /\ Len(queues[s.q]) < qcap[s.q]
    /\ queues' = [queues EXCEPT ![s.q] = Append(@, s.conn)]
    /\ pred' = [pred EXCEPT ![p] = NoPred]
    /\ UNCHANGED <<heap, nextH, models, updatable, qcap, procs, pendStart,
                   pendKill, fileTime, sup, fatal, faults, nRec, nDone,
                   trig>>

\* ------------------------------------------------------------------- Init
\* After NewDaemon(binPath, DefaultPort, c, modelPath, test, u): the handle is
\* at address 0, unstarted; its watcher sleeps when u is set.  n processes
\* left by an earlier run of the program match the port; f commands may fail
\* and r calls of RecreateDaemon may start.
Constructed(c, u, n, f, r) ==
    /\ heap = [h \in Handles |->
                 IF h = 0 THEN NewDaemon(DefaultPort, c, 0) ELSE NoHandle]
    /\ nextH = 1
    /\ models = [h \in Handles |-> [ModTime |-> 0]]
    /\ updatable = u
    /\ queues = [h \in Handles |-> <<>>]
    /\ qcap = [h \in Handles |-> 0]
    /\ procs = [p \in Ports |->
                  IF p = DefaultPort THEN [count |-> n, want |-> n, inst |-> 0]
                  ELSE NoProc]
    /\ pendStart = {}
    /\ pendKill = {}
    /\ fileTime = 0
    /\ sup = [t \in Sups |->
                IF t = Main THEN With(NoSup, [pc |-> "new"])
                ELSE IF t = 0 /\ u THEN With(NoSup, [pc |-> "sleep", d |-> 0])
                ELSE NoSup]
    /\ pred = [p \in Preds |-> NoPred]
    /\ fatal = ""
    /\ faults = f
    /\ nRec = r
    /\ nDone = 0
    /\ trig = [v \in 0 .. MaxChanges |-> 0]

\* The state in which the caller's Run on the constructed handle has returned
\* (on a free port, every command having run): the daemon and its c workers
\* run, and the pool holds its c / 2 connections.
Running(c, u) ==
    /\ heap = [h \in Handles |->
                 IF h = 0 THEN [NewDaemon(DefaultPort, c, 0) EXCEPT !.TCPQueue = 0]
                 ELSE NoHandle]
    /\ nextH = 1
    /\ models = [h \in Handles |-> [ModTime |-> 0]]
    /\ updatable = u
    /\ queues = [h \in Handles |->
                   IF h = 0
                   THEN [k \in 1 .. PoolSize(c) |->
                           [q |-> 0, k |-> k - 1, port |-> DefaultPort, inst |-> 1]]
                   ELSE <<>>]
    /\ qcap = [h \in Handles |-> IF h = 0 THEN PoolSize(c) ELSE 0]
    /\ procs = [p \in Ports |->
                  IF p = DefaultPort
                  THEN [count |-> c + 1, want |-> c + 1, inst |-> 1]
                  ELSE NoProc]
    /\ pendStart = {}
    /\ pendKill = {}
    /\ fileTime = 0
    /\ sup = [t \in Sups |->
                IF t = Main THEN With(NoSup, [pc |-> "ran"])
                ELSE IF t = 0 /\ u THEN With(NoSup, [pc |-> "sleep", d |-> 0])
                ELSE NoSup]
    /\ pred = [p \in Preds |-> NoPred]
    /\ fatal = ""

\* Hot reload: the handle is constructed, or constructed and running; every
\* shell command runs.
Init ==
    \E c \in 1 .. MaxChildren, u \in BOOLEAN :
        \/ Constructed(c, u, 0, 0, MaxRecreates)
        \/ /\ Running(c, u)
           /\ faults = 0
           /\ nRec = MaxRecreates
           /\ nDone = 0
           /\ trig = [v \in 0 .. MaxChanges |-> 0]

\* The pool: the handle is constructed without a watcher; the port is free or
\* held by the daemon of an earlier run.
InitPool ==
    \E c \in 1 .. MaxWorkers, old \in BOOLEAN :
        Constructed(c, FALSE, IF old THEN c + 1 ELSE 0, MaxFaults, 0)

\* The watchers: an updatable handle is constructed, and one more call of
\* RecreateDaemon may start than in Spec.
InitWatch ==
    \E c \in 1 .. MaxChildren : Constructed(c, TRUE, 0, 0, MaxRecreates + 1)

\* The health check: the handle is constructed, and any number of processes
\* match its port.
InitExist ==
    \E c \in 1 .. MaxChildren, n \in 0 .. MaxChildren + 1 :
        Constructed(c, FALSE, n, MaxFaults, 0)

\* The life of one handle: it is constructed without a watcher, and any
\* number of processes match its port.
InitLife ==
    \E c \in 1 .. MaxChildren, n \in 0 .. MaxChildren + 1 :
        Constructed(c, FALSE, n, MaxFaults, 0)

\* Predict during a reload: the handle runs, without a watcher, and its
\* caller may call RecreateDaemon once.
InitSwap ==
    \E c \in 1 .. MaxChildren :
        /\ Running(c, FALSE)
        /\ faults = 0
        /\ nRec = 1
        /\ nDone = 0
        /\ trig = [v \in 0 .. MaxChanges |-> 0]

\* Predict on a running handle: Run has returned, every command runs, and
\* nothing stops the daemon.
InitLive ==
    \E c \in 1 .. MaxWorkers :
        /\ Running(c, FALSE)
        /\ faults = 0
        /\ nRec = 0
        /\ nDone = 0
        /\ trig = [v \in 0 .. MaxChanges |-> 0]

\* The goroutines that run, stop and recreate daemons.
SupNext ==
    \/ \E t \in Sups : IsExistPoll(t)
    \/ \E t \in Sups : StopKill(t)
    \/ \E t \in Sups : StopAfterExist(t)
    \/ \E t \in Sups : RunAfterPre(t)
    \/ \E t \in Sups : RunStart(t)
    \/ \E t \in Sups : RunAfterPost(t)
    \/ \E t \in Sups : RunFill(t)
    \/ \E t \in Sups : RunReturn(t)

RecreateNext ==
    \/ \E t \in Sups : RecreateBegin(t)
    \/ \E t \in Sups, f \in Fields : RecreateOverwrite(t, f)
    \/ \E t \in Sups : RecreateReturn(t)

PredictNext ==
    \/ \E p \in Preds, r \in Requests : PredictCall(p, r)
    \/ \E p \in Preds : PredictRecv(p)
    \/ \E p \in Preds : PredictIO(p)
    \/ \E p \in Preds : PredictSend(p)

EnvNext ==
    \/ \E p \in Ports, n \in 1 .. MaxWorkers : EnvSpawn(p, n)
    \/ \E p \in Ports : EnvFork(p)
    \/ \E p \in Ports : EnvKill(p)

\* Hot reload: the watchers, or the caller of a handle that has none,
\* recreate the handle as the model file changes.
Next ==
    \/ MainRecreate
    \/ SupNext
    \/ RecreateNext
    \/ \E t \in Sups : WatcherPoll(t)
    \/ EnvNext
    \/ EnvTouch

Spec == Init /\ [][Next]_vars

\* The pool: the caller runs the handle, and goroutines call Predict on it.
NextPool ==
    \/ MainRun
    \/ SupNext
    \/ PredictNext
    \/ EnvNext

SpecPool == InitPool /\ [][NextPool]_vars

\* The watchers alone.
NextWatch ==
    \/ SupNext
    \/ RecreateNext
    \/ \E t \in Sups : WatcherPoll(t)
    \/ EnvNext
    \/ EnvTouch

SpecWatch == InitWatch /\ [][NextWatch]_vars

\* The health check and Stop, called directly, against any source of counts.
NextExist ==
    \/ \E tries \in 0 .. MaxTries : MainIsExist(tries)
    \/ MainStop
    \/ \E t \in Sups : IsExistPoll(t)
    \/ \E t \in Sups : StopKill(t)
    \/ \E t \in Sups : StopAfterExist(t)
    \/ \E p \in Ports : EnvKill(p)
    \/ \E n \in 0 .. MaxChildren + 1 : EnvSet(DefaultPort, n)

SpecExist == InitExist /\ [][NextExist]_vars

\* The life of one handle: the caller runs it, and stops it before or after.
NextLife ==
    \/ MainRun
    \/ MainStop
    \/ SupNext
    \/ EnvNext

SpecLife == InitLife /\ [][NextLife]_vars

\* Predict during a reload: goroutines call Predict on the handle while its
\* caller recreates it.
NextSwap ==
    \/ MainRecreate
    \/ SupNext
    \/ RecreateNext
    \/ PredictNext
    \/ EnvNext

SpecSwap == InitSwap /\ [][NextSwap]_vars

\* Predict on a running handle, under the Go scheduler: a goroutine that
\* can run does run, and a goroutine waiting on a channel that is ready
\* again and again gets its turn (the channel's wait queue is first in,
\* first out).
NextLive == PredictNext

FairLive ==
    \A p \in Preds :
        /\ SF_vars(PredictRecv(p))
        /\ WF_vars(PredictIO(p))
        /\ WF_vars(PredictSend(p))

SpecLive == InitLive /\ [][NextLive]_vars /\ FairLive

\* ================================================================= claims
Range(f) == {f[x] : x \in DOMAIN f}

\* The goroutines inside Predict that hold a connection.
Holders == {p \in Preds : pred[p].pc \in {"io", "send"}}

\* ---------------------------------------------------------------------- C1
\* C1: for a handle that has been run and is not recreated (SpecPool), under
\* every interleaving of the Predict calls the number of connections checked
\* out of TCPQueue at one time never exceeds Children / 2.
C1_PoolBound ==
    Cardinality(Holders) <= heap[0].Children \div 2

\* Two connections are out, which is the whole pool, and a third Predict
\* waits on the channel.
C1_Witness ==
    /\ heap[0].Children \div 2 = 2
    /\ Cardinality(Holders) = 2
    /\ \E p \in Preds : pred[p].pc = "recv" /\ pred[p].q = 0

\* ---------------------------------------------------------------------- C2
\* C2: once Run has returned, every connection the fill created is in exactly
\* one place, available in TCPQueue or held by exactly one Predict call; no
\* two Predict calls hold the same connection; no connection is created
\* after the fill: available plus checked out is the capacity Children / 2.
C2_Conservation ==
    sup[Main].pc = "ran" =>
        LET q      == heap[0].TCPQueue
            size   == heap[0].Children \div 2
            filled == {[q |-> 0, k |-> k, port |-> heap[0].Port,
                        inst |-> procs[heap[0].Port].inst] : k \in 0 .. size - 1}
            held   == {pred[p].conn : p \in Holders}
        IN  /\ q = 0
            /\ Len(queues[q]) + Cardinality(Holders) = size
            /\ Range(queues[q]) \cup held = filled
            /\ \A c \in filled :
                 Cardinality({i \in DOMAIN queues[q] : queues[q][i] = c})
                 + Cardinality({p \in Holders : pred[p].conn = c}) = 1

\* Run has returned for a pool of two; one connection is held by a Predict
\* and the other is available.
C2_Witness ==
    /\ sup[Main].pc = "ran"
    /\ heap[0].Children \div 2 = 2
    /\ Cardinality(Holders) = 1
    /\ Len(queues[0]) = 1

\* The state Spec starts a running handle from is one Run leads to.
RunningReached == \E c \in 1 .. MaxChildren : Running(c, FALSE)

\* --------------------------------------------------------------------- C10
\* What the claim says Predict writes for request r.
Terminated(r) ==
    IF Len(r) > 0 /\ r[Len(r)] = endOfLine THEN r ELSE r \o <<endOfLine>>

\* C10: for every request, the payload Predict writes is the request when
\* its last byte is the terminator and the request followed by one terminator
\* otherwise; normalising a normalised payload changes nothing; and this is
\* defined for every request, the empty one included.
C10_Claim ==
    \A p \in Preds :
        /\ pred[p].pc # "panic"
        /\ pred[p].pc \in {"recv", "io"} =>
             /\ pred[p].payload = Terminated(pred[p].req)
             /\ Normalise(pred[p].payload) = pred[p].payload

\* The part of C10 the code keeps: the same, for the requests that are not
\* empty.
C10_NonEmpty ==
    \A p \in Preds :
        pred[p].pc \in {"recv", "io"} =>
            /\ pred[p].payload = Terminated(pred[p].req)
            /\ Normalise(pred[p].payload) = pred[p].payload

\* ---------------------------------------------------------------------- C6
\* C6: when the count query first returns Children+1 on poll number k (k <=
\* tries), IsExist returns true on that poll: it is not polling any more, it
\* has made k polls and slept k-1 times.
C6_ReturnsAtFirstMatch ==
    \A t \in Sups :
        /\ sup[t].pc = "poll" => sup[t].hit = 0
        /\ sup[t].pc = "ex_ret" /\ sup[t].hit > 0 =>
             /\ sup[t].res
             /\ sup[t].polls = sup[t].hit
             /\ sup[t].delays = sup[t].hit - 1

\* A direct call returned on its third poll, the first to see Children+1.
C6_Witness ==
    /\ sup[Main].pc = "ex_ret"
    /\ sup[Main].from = "api"
    /\ sup[Main].hit = 3
    /\ sup[Main].res

\* ---------------------------------------------------------------------- C7
\* C7: when the count query never returns Children+1, IsExist (tries >= 1)
\* returns false after exactly tries polls and tries-1 delays.
C7_Claim ==
    \A t \in Sups :
        sup[t].pc = "ex_ret" /\ sup[t].hit = 0 /\ sup[t].tries >= 1 =>
            /\ ~sup[t].res
            /\ sup[t].polls = sup[t].tries
            /\ sup[t].delays = sup[t].tries - 1

\* What the code does instead: it sleeps after the last poll too.
C7_SleepsAfterLastPoll ==
    \A t \in Sups :
        sup[t].pc = "ex_ret" /\ sup[t].hit = 0 =>
            /\ ~sup[t].res
            /\ sup[t].polls = sup[t].tries
            /\ sup[t].delays = sup[t].tries

\* ---------------------------------------------------------------------- C8
\* C8: Stop returns nil only when no process matching the port is observable:
\* the last poll of Stop's IsExist, when it ends the polling with false,
\* counts no process (and Stop on a port without processes returns nil).
C8_Claim ==
    [][\A t \in Sups :
         (/\ sup[t].pc = "poll"
          /\ sup[t].from = "stop"
          /\ sup'[t].pc = "ex_ret"
          /\ ~sup'[t].res)
         => procs'[RecvPort(sup[t])].count = 0]_vars

\* ---------------------------------------------------------------------- C3
\* The fields of the instance that goroutine t's RecreateDaemon created.
NewInstance(s) ==
    [Port |-> AlternatePort(s.tmp.Port), Children |-> s.tmp.Children,
     Model |-> s.nw, TCPQueue |-> s.nw]

\* C3: when RecreateDaemon(d) returns, the struct at d holds the new
\* instance's Port, Children, Model and TCPQueue: who held d reads them
\* through d.
C3_Claim ==
    \A t \in Sups :
        sup[t].pc = "rc_ret" => heap[sup[t].d] = NewInstance(sup[t])

\* What the code keeps of C3: the same for a handle without a watcher, whose
\* caller calls RecreateDaemon one call at a time.
C3_Sequential ==
    ~updatable =>
        \A t \in Sups :
            sup[t].pc = "rc_ret" => heap[sup[t].d] = NewInstance(sup[t])

\* ---------------------------------------------------------------------- C4
\* C4: from a handle on the default port P, after n RecreateDaemon calls
\* have returned the handle's port is P+1 for odd n and P for even n; only
\* P and P+1 are ever used.
C4_Claim ==
    /\ \A h \in 0 .. nextH - 1 : heap[h].Port \in {DefaultPort, DefaultPort + 1}
    /\ \A t \in Sups :
         sup[t].pc = "rc_ret" /\ sup[t].d = 0 =>
             heap[0].Port = DefaultPort + ((nDone + 1) % 2)

\* What the code keeps of C4: the same for a handle without a watcher.
C4_Sequential ==
    ~updatable =>
        /\ \A h \in 0 .. nextH - 1 :
             heap[h].Port \in {DefaultPort, DefaultPort + 1}
        /\ \A t \in Sups :
             sup[t].pc = "rc_ret" /\ sup[t].d = 0 =>
                 heap[0].Port = DefaultPort + ((nDone + 1) % 2)

\* ---------------------------------------------------------------------- C5
\* C5: RecreateDaemon(d) stores into d only in its overwrite, which it
\* reaches only with the new instance seen healthy; when the new instance is
\* not healthy within the budget the program ends, and d is as it was.
C5_OverwriteOnlyAfterRun ==
    [][\A t \in Sups :
         (sup[t].d # Nil /\ sup'[t] # sup[t]) =>
             /\ heap'[sup[t].d] # heap[sup[t].d] =>
                  sup[t].pc = "swap" /\ sup[t].res
             /\ (sup[t].pc = "ex_ret" /\ sup[t].from = "post" /\ ~sup[t].res) =>
                  fatal' = "Failed to start daemon!" /\ heap' = heap]_vars

\* The caller's RecreateDaemon ended fatally on an unhealthy new instance,
\* and the handle is the one that was constructed and run.
C5_Witness ==
    /\ fatal = "Failed to start daemon!"
    /\ sup[Main].d = 0
    /\ sup[Main].from = "post"
    /\ heap[0] = [NewDaemon(DefaultPort, heap[0].Children, 0) EXCEPT !.TCPQueue = 0]

\* ---------------------------------------------------------------------- C9
\* C9: a change of the model file triggers RecreateDaemon once: for each
\* modification time the file takes, the modelFileChecker loops call
\* RecreateDaemon at most once while the file has it.
C9_Claim ==
    \A v \in DOMAIN trig : trig[v] <= 1

\* What the code keeps of C9: the time a handle's model holds is replaced
\* only by the store of *d = *newVW, which follows the Run of the new
\* instance; no VWModel's ModTime is written after NewDaemon.
C9_StoredOnlyBySwap ==
    [][\A h \in 0 .. nextH - 1 :
         /\ heap'[h].Model # heap[h].Model =>
              \E t \in Sups : sup[t].pc = "swap" /\ sup[t].d = h /\ sup[t].res
         /\ models'[h] = models[h]]_vars

\* --------------------------------------------------------------------- C11
\* The handle's pool is live: the channel is made and holds the Children / 2
\* connections of the fill.
LivePool(h) ==
    /\ heap[h].TCPQueue # Nil
    /\ Len(queues[heap[h].TCPQueue]) = PoolSize(heap[h].Children)

\* C11: the handle has a live pool exactly when its process has been seen
\* running by Run and has not been stopped since: no pool before Run, the
\* pool after Run has returned, no pool after Stop has returned.
C11_Claim ==
    /\ sup[Main].pc = "new" => heap[0].TCPQueue = Nil
    /\ sup[Main].pc = "ran" => LivePool(0)
    /\ sup[Main].pc = "stopped" => heap[0].TCPQueue = Nil

\* What the code keeps of C11: no pool before Run, the pool after Run.
C11_UntilStop ==
    /\ sup[Main].pc = "new" => heap[0].TCPQueue = Nil
    /\ sup[Main].pc = "ran" => LivePool(0)

\* What the code does after a Stop that follows a Run: the pool is as Run
\* left it.
C11_PoolOutlivesStop ==
    (sup[Main].pc = "stopped" /\ qcap[0] > 0) => LivePool(0)

\* --------------------------------------------------------------------- C12
\* Goroutine t issues Run's start command in this step.
IssuesStart(t) ==
    /\ sup[t].pc = "start"
    /\ sup'[t].pc = "poll"
    /\ sup'[t].from = "post"

\* C12: Run issues its start command only with no process matching the
\* port: a process that runs there, whatever its number of workers, has been
\* stopped first.
C12_Claim ==
    [][\A t \in Sups :
         IssuesStart(t) => procs[RecvPort(sup[t])].count = 0]_vars

\* What the code keeps of C12: a daemon with exactly Children workers is
\* stopped first; the start is never issued over a count of Children+1.
C12_ExactCountStopped ==
    [][\A t \in Sups :
         IssuesStart(t) =>
             procs[RecvPort(sup[t])].count # RecvChildren(sup[t]) + 1]_vars

\* --------------------------------------------------------------------- C13
\* C13: IsExist returns neither true nor false from a call in which a count
\* query has failed, whichever poll it was: such a call ends fatally.
C13_Claim ==
    \A t \in Sups : sup[t].pc = "ex_ret" => ~sup[t].qerr

\* What the code keeps of C13: IsExist does not return when the query of its
\* last poll has failed.
C13_LastPollFatal ==
    \A t \in Sups : sup[t].pc = "ex_ret" => ~sup[t].err

\* --------------------------------------------------------------------- C14
\* The modelFileChecker goroutines that run.
Watchers == {t \in Handles : sup[t].pc # "none"}

\* C14: an updatable daemon has exactly one modelFileChecker loop, however
\* many times the model has changed and the daemon been recreated.
C14_Claim ==
    updatable => Cardinality(Watchers) = 1

\* What the code does: one modelFileChecker per NewDaemon call, those of
\* RecreateDaemon included, and none of them ends.
C14_OnePerNewDaemon ==
    updatable => Cardinality(Watchers) = nextH

\* --------------------------------------------------------------------- C15
\* Goroutine t is in the deferred tmpVW.Stop() of a RecreateDaemon that has
\* stored *d = *newVW.
InDeferredStop(t) ==
    /\ sup[t].d # Nil
    /\ sup[t].sfrom = "defer"
    /\ ~sup[t].panicking

\* C15: in a RecreateDaemon that succeeds the old instance is killed after
\* every field of d has been stored, on the port of the snapshot and not on
\* the new instance's; d does not refer to the port that is killed.
C15_Claim ==
    \A t \in Sups :
        InDeferredStop(t) =>
            /\ sup[t].todo = {}
            /\ RecvPort(sup[t]) = sup[t].tmp.Port
            /\ RecvPort(sup[t]) # AlternatePort(sup[t].tmp.Port)
            /\ heap[sup[t].d].Port # RecvPort(sup[t])

\* What the code keeps of C15: the same for a handle without a watcher.
C15_Sequential ==
    ~updatable =>
        \A t \in Sups :
            InDeferredStop(t) =>
                /\ sup[t].todo = {}
                /\ RecvPort(sup[t]) = sup[t].tmp.Port
                /\ RecvPort(sup[t]) # AlternatePort(sup[t].tmp.Port)
                /\ heap[sup[t].d].Port # RecvPort(sup[t])

\* With watchers, what the code keeps: the kill follows the stores and is
\* on the snapshot's port.
C15_KillAfterStores ==
    \A t \in Sups :
        InDeferredStop(t) =>
            /\ sup[t].todo = {}
            /\ RecvPort(sup[t]) = sup[t].tmp.Port
            /\ RecvPort(sup[t]) # AlternatePort(sup[t].tmp.Port)

\* --------------------------------------------------------------------- C16
\* Goroutine t's RecreateDaemon has ended with the program, in Run's
\* log.Fatal on a new instance that is not healthy.
EndedUnhealthy(t) ==
    /\ fatal = "Failed to start daemon!"
    /\ sup[t].d # Nil
    /\ sup[t].pc = "ex_ret"
    /\ sup[t].from = "post"
    /\ ~sup[t].res

\* Goroutine t's deferred tmpVW.Stop() has launched its pkill.
SnapshotStopped(t) ==
    /\ sup[t].sfrom = "defer"
    /\ sup[t].pc # "kill"

\* C16: the snapshot's Stop is executed in every execution of
\* RecreateDaemon, the one in which the new instance does not become
\* healthy included.
C16_Claim ==
    \A t \in Sups : EndedUnhealthy(t) => SnapshotStopped(t)

\* What the code keeps of C16: RecreateDaemon returns only out of the
\* snapshot's Stop.
C16_ReleasedOnReturn ==
    [][\A t \in Sups :
         (sup[t].pc # "rc_ret" /\ sup'[t].pc = "rc_ret") =>
             /\ sup[t].self = TmpRef
             /\ sup[t].sfrom = "defer"
             /\ sup[t].from = "stop"]_vars

\* --------------------------------------------------------------------- C17
\* Goroutine t, inside Run, launches the pkill of Run's Stop in this step.
IssuesRunKill(t) ==
    /\ sup[t].pc = "kill"
    /\ sup[t].sfrom = "run"
    /\ sup'[t].pc = "poll"

\* STABLE: the handle has a pool, no goroutine is inside RecreateDaemon or
\* Run, and no detached command is still to run.
Stable ==
    /\ fatal = ""
    /\ heap[0].TCPQueue # Nil
    /\ \A t \in Sups : sup[t].pc \in {"none", "sleep", "new", "ran"}
    /\ pendStart = {}
    /\ pendKill = {}

\* The handle's port has its daemon with all its workers, and the
\* connections of the handle's pool are connections to that daemon.
Healthy ==
    LET p == heap[0].Port IN
    /\ procs[p].count = heap[0].Children + 1
    /\ \A i \in DOMAIN queues[heap[0].TCPQueue] :
         LET c == queues[heap[0].TCPQueue][i] IN
         c.port = p /\ c.inst = procs[p].inst

\* No goroutine inside RecreateDaemon launches Run's start command, or the
\* pkill of Run's Stop, on a port where processes are running.
PortsKeptApart ==
    \A t \in Sups :
        sup[t].d # Nil =>
            /\ IssuesStart(t) => procs[RecvPort(sup[t])].count = 0
            /\ IssuesRunKill(t) => procs[RecvPort(sup[t])].count = 0

\* C17: a recreate never starts a process, nor kills one from its Run, on a
\* port where an instance is running; and whenever no recreate is in
\* progress the handle's port has a healthy instance, which the handle's
\* pool is connected to.
C17_Claim == [][PortsKeptApart /\ (Stable' => Healthy')]_vars

\* What the code keeps of C17: the recreates of a handle without a watcher,
\* which come one after the other, keep the ports apart.
C17_Sequential == [][~updatable => PortsKeptApart]_vars

\* --------------------------------------------------------------------- C18
\* No goroutine is part way through the stores of *d = *newVW into d.
NotStoring(d) ==
    \A t \in Sups : ~(sup[t].pc = "swap" /\ sup[t].d = d)

\* C18: every connection in the handle's pool is a connection to the
\* handle's port (looked at when no overwrite of the handle is half done):
\* a connection of the old pool is never checked into the new one.
C18_Claim ==
    (heap[0].TCPQueue # Nil /\ NotStoring(0)) =>
        \A i \in DOMAIN queues[heap[0].TCPQueue] :
            queues[heap[0].TCPQueue][i].port = heap[0].Port

\* --------------------------------------------------------------------- C19
\* C19: the check-in of Predict never waits: whenever a Predict is at
\* vw.TCPQueue <- conn, the channel it sends to has room for the connection.
C19_Claim ==
    \A p \in Preds :
        pred[p].pc = "send" =>
            /\ pred[p].q # Nil
            /\ Len(queues[pred[p].q]) < qcap[pred[p].q]

\* --------------------------------------------------------------------- C20
\* C20: for every Children >= 1, on a handle Run has returned from and whose
\* daemon answers, a Predict call that waits for a connection gets one and
\* returns (or the program has ended).
C20_Claim ==
    \A p \in Preds :
        (pred[p].pc = "recv") ~> (pred[p].pc = "idle" \/ fatal # "")

\* What the code keeps of C20: the same when Children >= 2, the pool then
\* holding at least one connection.
C20_TwoOrMoreWorkers ==
    \A p \in Preds :
        (pred[p].pc = "recv" /\ heap[0].Children >= 2)
            ~> (pred[p].pc = "idle" \/ fatal # "")

\* What the code does for Children = 1: the pool is a channel without room
\* that holds no connection, and no Predict call gets past its receive.
C20_OneWorkerNoPool ==
    heap[0].Children = 1 =>
        /\ qcap[0] = 0
        /\ queues[0] = <<>>
        /\ \A p \in Preds : pred[p].pc \in {"idle", "recv", "panic"}

=============================================================================
